---- MODULE Spec2Model ----
(***************************************************************************)
(* The bookstore backend's request handlers (backend/routes/handlers.go)   *)
(* as a state machine over the relational store.  One action per handler;  *)
(* every database call of a handler can fail (the `fail` input names the   *)
(* failing call, 0 for none).  The last response is kept in `resp` with the *)
(* identity the handler read and the outcomes of its database calls, the   *)
(* tokens handed out to clients in `issued`.                               *)
(***************************************************************************)
EXTENDS Naturals, Integers, FiniteSets, Sequences, TLC

VARIABLES
    users,      \* rows of the users table visible to queries
    nextID,     \* the users table's auto-increment sequence
    books,      \* rows of the books table
    cart,       \* rows of the cart_items table
    cartNextID, \* the cart_items table's auto-increment sequence
    reviews,    \* rows of the reviews table
    now,        \* the wall clock, in seconds
    secret,     \* the JWT_SECRET environment variable ("" when unset)
    issued,     \* tokens returned to clients, each with its time of issue
    resp        \* the last request handled and the response it got

vars == <<users, nextID, books, cart, cartNextID, reviews, now, secret, issued, resp>>

----------------------------------------------------------------------------
(* Bounds of the model *)

MaxUsers == 2
MaxBooks == 1
MaxCartItems == 2
MaxQuantity == 2
MaxTicks == 3
MaxIssued == 2
MaxSmallID == 40

(* Program constants *)

TokenTTL == 86400
BcryptCost == 10
UintWidth == 64
Float64Precision == 53

----------------------------------------------------------------------------
(* Small helpers *)

SetMax(S) == CHOOSE x \in S : \A y \in S : y <= x
SetMin(S) == CHOOSE x \in S : \A y \in S : x <= y

----------------------------------------------------------------------------
(* uint and float64.  A uint is the set of its one bits, bit i of weight    *)
(* 2^i for i in 0..63; a float64 holding a non-negative whole number up to  *)
(* 2^64 is that number's one bits, of which the top one and the lowest one  *)
(* lie fewer than 53 places apart.                                          *)

UintOfNat(n) == {i \in 0..30 : (n \div (2 ^ i)) % 2 = 1}

Pow2Plus(k, d) == {k} \cup UintOfNat(d)

MaxUint == 0..(UintWidth - 1)

TopBit(b) == IF b = {} THEN 0 - 1 ELSE SetMax(b)

\* encoding/json writes a uint as its exact decimal; the claims map is read back
\* with every JSON number parsed as float64 (round to nearest, ties to even).
Float64OfUint(b) ==
    LET e == TopBit(b) - (Float64Precision - 1)
    IN  IF e <= 0 THEN b
        ELSE LET guard == (e - 1) \in b
                 sticky == \E i \in b : i < e - 1
                 odd == e \in b
                 trunc == {i \in b : i >= e}
                 k == SetMin({i \in e..UintWidth : i \notin trunc})
             IN  IF guard /\ (sticky \/ odd)
                 THEN {i \in trunc : i > k} \cup {k}
                 ELSE trunc

\* uint(f): exact when f < 2^64; otherwise the result is implementation-dependent
\* (the Go specification), here one of the values the usual builds produce.
UintOfFloat64(f) ==
    IF UintWidth \notin f
    THEN {f}
    ELSE {UintOfNat(0), {UintWidth - 1}, MaxUint}

----------------------------------------------------------------------------
(* Password hashing (bcrypt): a salted one-way digest at a cost factor *)

Salts == {"s1", "s2"}

\* []byte(s): the bytes of a string, tagged with how they were obtained.
Bytes(s) == IF s = "" THEN <<>> ELSE <<"utf8", s>>

\* The strings of the model that are well-formed standard base64.
Base64Strings == {"pass"}

\* encoding/json stores a JSON string into a []byte field by decoding it as
\* base64: the decoded bytes are never the string's own bytes, and a string
\* that is not base64 is a parse error.
DecodeString(s) ==
    IF s = "" THEN [ok |-> TRUE, bytes |-> <<>>]
    ELSE IF s \in Base64Strings THEN [ok |-> TRUE, bytes |-> <<"base64", s>>]
    ELSE [ok |-> FALSE, bytes |-> <<>>]

GenerateFromPassword(password, cost, salt) ==
    [cost |-> cost, salt |-> salt, digest |-> <<"bcrypt", cost, salt, password>>]

CompareHashAndPassword(hash, password) ==
    hash.digest = <<"bcrypt", hash.cost, hash.salt, password>>

----------------------------------------------------------------------------
(* Tokens.  A token in flight carries its claims as JSON and the key it was *)
(* signed with; c.Locals("user") holds the parsed token or nothing.         *)

NoToken == [kind |-> "none"]

\* CreateToken with a lifetime one second short.
CreateTokenShortLived(userID) ==
    [token |-> [kind |-> "jwt",
                user_id |-> [type |-> "number", val |-> userID],
                exp |-> now + TokenTTL - 1,
                key |-> secret],
     err |-> FALSE]

CreateToken(userID) ==
    [token |-> [kind |-> "jwt",
                user_id |-> [type |-> "number", val |-> userID],
                exp |-> now + TokenTTL,
                key |-> secret],
     err |-> FALSE]

\* The JSON claims as the parser delivers them in jwt.MapClaims.
ParseClaim(v) ==
    IF v.type = "number" THEN [type |-> "float64", val |-> Float64OfUint(v.val)]
    ELSE v

ParseToken(raw) ==
    [kind |-> "jwt", Claims |-> [user_id |-> ParseClaim(raw.user_id), exp |-> raw.exp]]

\* The token verifier in front of the protected routes (spec section 4.3).
Authenticate(raw) ==
    IF raw = NoToken THEN [err |-> "Missing", user |-> NoToken]
    ELSE IF raw.key # secret THEN [err |-> "BadSignature", user |-> NoToken]
    ELSE IF now > raw.exp THEN [err |-> "Expired", user |-> NoToken]
    ELSE [err |-> "none", user |-> ParseToken(raw)]

\* token := c.Locals("user").(*jwt.Token); claims["user_id"].(float64); uint(...)
\* The set of identities the three lines can yield; empty when a cast panics.
UserIDFromLocals(local) ==
    IF local = NoToken THEN {}
    ELSE IF local.Claims.user_id.type # "float64" THEN {}
    ELSE UintOfFloat64(local.Claims.user_id.val)

----------------------------------------------------------------------------
(* Requests, responses and the store's answers *)

Roles == {"admin", "customer"}
ValidEmails == {"a@x.io", "b@x.io"}

\* validate:"required,email"
ValidEmail(e) == e \in ValidEmails

\* A URL parameter: decimal digits (num, with the value) or anything else.
NumParam(n) == [num |-> TRUE, val |-> n]
BadParam == [num |-> FALSE, val |-> 0]

\* The outcome of a query for `rows` when the call fails or not.
Lookup(rows, failed) ==
    IF failed THEN "failure" ELSE IF rows = {} THEN "notfound" ELSE "ok"

\* gorm's First: the row with the smallest primary key.
First(rows) == CHOOSE r \in rows : \A q \in rows : r.ID <= q.ID

NewResp(op, req, local) ==
    [op |-> op, req |-> req, local |-> local,
     status |-> 200, msg |-> "", token |-> NoToken, userID |-> {},
     data |-> <<>>, db |-> <<>>, wrote |-> FALSE]

Fail(r, status, msg, db) ==
    [r EXCEPT !.status = status, !.msg = msg, !.db = db]

\* A handler that died in a failed type assertion: no response is written.
Panic(r) == [r EXCEPT !.status = 0, !.msg = "panic"]

\* The client keeps the token of a response (while the model has room for it).
Hand(token) ==
    IF token # NoToken /\ Cardinality(issued) < MaxIssued
    THEN issued \cup {[tok |-> token, at |-> now]}
    ELSE issued

----------------------------------------------------------------------------
(* Accounts *)

\* LoginResponse without the password comparison.
LoginResponseNoCompare(body, fail) ==
    LET r == NewResp("Login", body, NoToken)
        rows == {u \in users : u.Email = body.email}
        found == Lookup(rows, fail = 1)
        user == First(rows)
        created == CreateToken(UintOfNat(user.ID))
    IN  IF ~body.json THEN Fail(r, 400, "Cannot parse JSON", <<>>)
        ELSE IF ~(ValidEmail(body.email) /\ body.password # "")
            THEN Fail(r, 400, "Invalid input data", <<>>)
        ELSE IF found # "ok" THEN Fail(r, 404, "User not found", <<found>>)
        ELSE [r EXCEPT !.token = created.token, !.db = <<found>>]

LoginResponse(body, fail) ==
    LET r == NewResp("Login", body, NoToken)
        rows == {u \in users : u.Email = body.email}
        found == Lookup(rows, fail = 1)
        user == First(rows)
        created == CreateToken(UintOfNat(user.ID))
    IN  IF ~body.json THEN Fail(r, 400, "Cannot parse JSON", <<>>)
        ELSE IF ~(ValidEmail(body.email) /\ body.password # "")
            THEN Fail(r, 400, "Invalid input data", <<>>)
        ELSE IF found # "ok" THEN Fail(r, 404, "User not found", <<found>>)
        ELSE IF ~CompareHashAndPassword(user.Password, Bytes(body.password))
            THEN Fail(r, 400, "Incorrect password", <<found>>)
        ELSE IF created.err THEN Fail(r, 500, "Cannot log in", <<found>>)
        ELSE [r EXCEPT !.token = created.token, !.db = <<found>>]

LoginHandler(body, fail) ==
    /\ resp' = LoginResponse(body, fail)
    /\ issued' = Hand(resp'.token)
    /\ UNCHANGED <<users, nextID, books, cart, cartNextID, reviews, now, secret>>

RegisterHandler(body, fail, salt) ==
    LET r == NewResp("Register", body, NoToken)
        rows == {u \in users : u.Email = body.email}
        found == Lookup(rows, fail = 1)
        hashedPassword == GenerateFromPassword(Bytes(body.password), BcryptCost, salt)
        newUser == [ID |-> nextID,
                    FirstName |-> body.firstname,
                    LastName |-> body.lastname,
                    Email |-> body.email,
                    Password |-> hashedPassword,
                    Role |-> body.role,
                    Active |-> FALSE]
        created == CreateToken(UintOfNat(newUser.ID))
        valid == /\ body.firstname # "" /\ body.lastname # ""
                 /\ ValidEmail(body.email) /\ body.password # "" /\ body.role # ""
        creates == body.json /\ valid /\ found # "ok" /\ fail # 2
    IN  /\ creates => nextID <= MaxUsers
        /\ resp' =
            IF ~body.json THEN Fail(r, 400, "Cannot parse JSON", <<>>)
            ELSE IF ~valid THEN Fail(r, 400, "Invalid input data", <<>>)
            ELSE IF found = "ok" THEN Fail(r, 409, "User already exists", <<found>>)
            ELSE IF fail = 2 THEN Fail(r, 409, "User registration failed", <<found, "failure">>)
            ELSE IF created.err
                THEN [Fail(r, 500, "Cannot log in", <<found, "ok">>) EXCEPT !.wrote = TRUE]
            ELSE [r EXCEPT !.token = created.token, !.db = <<found, "ok">>, !.wrote = TRUE]
        /\ users' = IF creates THEN users \cup {newUser} ELSE users
        /\ nextID' = IF creates THEN nextID + 1 ELSE nextID
        /\ issued' = Hand(resp'.token)
        /\ UNCHANGED <<books, cart, cartNextID, reviews, now, secret>>

\* Deactivate (active = FALSE) and Activate (active = TRUE) differ in the flag,
\* the message and the cookie the first one clears.
SetActive(op, flag, id, fail) ==
    LET r == NewResp(op, id, NoToken)
        rows == {u \in users : id.num /\ u.ID = id.val}
        found == Lookup(rows, fail = 1)
        user == First(rows)
        writes == id.num /\ found = "ok" /\ fail # 2
    IN  /\ resp' =
            IF ~id.num THEN Fail(r, 400, "Invalid ID format", <<>>)
            ELSE IF found # "ok" THEN Fail(r, 404, "User not found", <<found>>)
            ELSE IF fail = 2
                THEN Fail(r, 500, IF flag THEN "Cannot activate user"
                                          ELSE "Cannot deactivate user", <<found, "failure">>)
            ELSE [r EXCEPT !.db = <<found, "ok">>, !.wrote = TRUE,
                           !.msg = IF flag THEN "User activated successfully"
                                           ELSE "User deactivated successfully"]
        /\ users' = IF writes
                    THEN (users \ {user}) \cup {[user EXCEPT !.Active = flag]}
                    ELSE users
        /\ UNCHANGED <<nextID, books, cart, cartNextID, reviews, now, secret, issued>>

DeactivateAccountHandler(id, fail) == SetActive("Deactivate", FALSE, id, fail)

ActivateAccountHandler(id, fail) == SetActive("Activate", TRUE, id, fail)

\* Answers with a cookie that asks the browser to drop its "jwt" cookie.
LogoutHandler ==
    /\ resp' = [NewResp("Logout", <<>>, NoToken) EXCEPT
                    !.msg = "User logged out successfully"]
    /\ UNCHANGED <<users, nextID, books, cart, cartNextID, reviews, now, secret, issued>>

\* UpdateProfile copying the first name whether it was supplied or not.
UpdateProfileOverwrite(id, body, fail, salt) ==
    LET r == NewResp("UpdateProfile", <<id, body>>, NoToken)
        rows == {u \in users : id.num /\ u.ID = id.val}
        found == Lookup(rows, fail = 1)
        user == First(rows)
        password == DecodeString(body.password)
        parsed == body.json /\ password.ok
        hashedPassword == GenerateFromPassword(password.bytes, BcryptCost, salt)
        updated == [user EXCEPT
                        !.FirstName = body.firstname,
                        !.LastName = IF body.lastname # "" THEN body.lastname ELSE @,
                        !.Email = IF body.email # "" THEN body.email ELSE @,
                        !.Password = IF Len(password.bytes) > 0 THEN hashedPassword ELSE @]
        writes == id.num /\ found = "ok" /\ parsed /\ fail # 2
    IN  /\ resp' =
            IF ~id.num THEN Fail(r, 400, "Invalid ID format", <<>>)
            ELSE IF found # "ok" THEN Fail(r, 404, "User not found", <<found>>)
            ELSE IF ~parsed THEN Fail(r, 400, "Cannot parse JSON", <<found>>)
            ELSE IF fail = 2
                THEN Fail(r, 500, "Cannot update user's profile", <<found, "failure">>)
            ELSE [r EXCEPT !.db = <<found, "ok">>, !.wrote = TRUE,
                           !.msg = "User profile updated successfully"]
        /\ users' = IF writes THEN (users \ {user}) \cup {updated} ELSE users
        /\ UNCHANGED <<nextID, books, cart, cartNextID, reviews, now, secret, issued>>

\* UpdateProfile hashing a new password at bcrypt's minimum cost.
UpdateProfileLowCost(id, body, fail, salt) ==
    LET r == NewResp("UpdateProfile", <<id, body>>, NoToken)
        rows == {u \in users : id.num /\ u.ID = id.val}
        found == Lookup(rows, fail = 1)
        user == First(rows)
        password == DecodeString(body.password)
        parsed == body.json /\ password.ok
        hashedPassword == GenerateFromPassword(password.bytes, 4, salt)
        updated == [user EXCEPT
                        !.FirstName = IF body.firstname # "" THEN body.firstname ELSE @,
                        !.LastName = IF body.lastname # "" THEN body.lastname ELSE @,
                        !.Email = IF body.email # "" THEN body.email ELSE @,
                        !.Password = IF Len(password.bytes) > 0 THEN hashedPassword ELSE @]
        writes == id.num /\ found = "ok" /\ parsed /\ fail # 2
    IN  /\ resp' =
            IF ~id.num THEN Fail(r, 400, "Invalid ID format", <<>>)
            ELSE IF found # "ok" THEN Fail(r, 404, "User not found", <<found>>)
            ELSE IF ~parsed THEN Fail(r, 400, "Cannot parse JSON", <<found>>)
            ELSE IF fail = 2
                THEN Fail(r, 500, "Cannot update user's profile", <<found, "failure">>)
            ELSE [r EXCEPT !.db = <<found, "ok">>, !.wrote = TRUE,
                           !.msg = "User profile updated successfully"]
        /\ users' = IF writes THEN (users \ {user}) \cup {updated} ELSE users
        /\ UNCHANGED <<nextID, books, cart, cartNextID, reviews, now, secret, issued>>

\* userData is a database.User, whose Password is the []byte the hash is kept in.
UpdateProfile(id, body, fail, salt) ==
    LET r == NewResp("UpdateProfile", <<id, body>>, NoToken)
        rows == {u \in users : id.num /\ u.ID = id.val}
        found == Lookup(rows, fail = 1)
        user == First(rows)
        password == DecodeString(body.password)
        parsed == body.json /\ password.ok
        hashedPassword == GenerateFromPassword(password.bytes, BcryptCost, salt)
        updated == [user EXCEPT
                        !.FirstName = IF body.firstname # "" THEN body.firstname ELSE @,
                        !.LastName = IF body.lastname # "" THEN body.lastname ELSE @,
                        !.Email = IF body.email # "" THEN body.email ELSE @,
                        !.Password = IF Len(password.bytes) > 0 THEN hashedPassword ELSE @]
        writes == id.num /\ found = "ok" /\ parsed /\ fail # 2
    IN  /\ resp' =
            IF ~id.num THEN Fail(r, 400, "Invalid ID format", <<>>)
            ELSE IF found # "ok" THEN Fail(r, 404, "User not found", <<found>>)
            ELSE IF ~parsed THEN Fail(r, 400, "Cannot parse JSON", <<found>>)
            ELSE IF fail = 2
                THEN Fail(r, 500, "Cannot update user's profile", <<found, "failure">>)
            ELSE [r EXCEPT !.db = <<found, "ok">>, !.wrote = TRUE,
                           !.msg = "User profile updated successfully"]
        /\ users' = IF writes THEN (users \ {user}) \cup {updated} ELSE users
        /\ UNCHANGED <<nextID, books, cart, cartNextID, reviews, now, secret, issued>>

\* DeleteAccountHandler parses the id itself; DeleteUserHandler hands the raw
\* parameter to the query, which finds no row for anything but a row's id.
DeleteUser(op, r, id, fail) ==
    LET rows == {u \in users : id.num /\ u.ID = id.val}
        found == Lookup(rows, fail = 1)
        user == First(rows)
        writes == found = "ok" /\ fail # 2
    IN  /\ resp' =
            IF found # "ok" THEN Fail(r, 404, "User not found", <<found>>)
            ELSE IF fail = 2
                THEN Fail(r, 500, IF op = "DeleteAccount" THEN "Cannot delete user account"
                                  ELSE "Failed to delete user", <<found, "failure">>)
            ELSE [r EXCEPT !.db = <<found, "ok">>, !.wrote = TRUE,
                           !.msg = IF op = "DeleteAccount"
                                   THEN "User account deleted successfully"
                                   ELSE "User deleted successfully"]
        /\ users' = IF writes THEN users \ {user} ELSE users
        /\ UNCHANGED <<nextID, books, cart, cartNextID, reviews, now, secret, issued>>

DeleteAccountHandler(id, fail) ==
    IF ~id.num
    THEN /\ resp' = Fail(NewResp("DeleteAccount", <<>>, NoToken),
                         400, "Invalid ID format", <<>>)
         /\ UNCHANGED <<users, nextID, books, cart, cartNextID, reviews, now, secret, issued>>
    ELSE DeleteUser("DeleteAccount", NewResp("DeleteAccount", <<>>, NoToken), id, fail)

DeleteUserHandler(local, id, fail) ==
    DeleteUser("DeleteUser", NewResp("DeleteUser", <<>>, local), id, fail)

\* GetUserNameHandler turning away a user whose account is not active.
GetUserNameHandlerActiveOnly(local, fail) ==
    LET r == NewResp("GetUserName", <<>>, local)
        ids == UserIDFromLocals(local)
    IN  /\ IF ids = {} THEN resp' = Panic(r)
           ELSE \E userID \in ids :
                LET rows == {u \in users : UintOfNat(u.ID) = userID}
                    found == Lookup(rows, fail = 1)
                    q == [r EXCEPT !.userID = {userID}]
                IN  resp' = IF found # "ok" THEN Fail(q, 404, "User not found", <<found>>)
                            ELSE IF ~First(rows).Active
                                THEN Fail(q, 403, "Account is deactivated", <<found>>)
                            ELSE [q EXCEPT !.db = <<found>>, !.data = First(rows).FirstName]
        /\ UNCHANGED <<users, nextID, books, cart, cartNextID, reviews, now, secret, issued>>

\* GetUserNameHandler and UserHomePageHandler are the same code.
GetUserNameHandler(local, fail) ==
    LET r == NewResp("GetUserName", <<>>, local)
        ids == UserIDFromLocals(local)
    IN  /\ IF ids = {} THEN resp' = Panic(r)
           ELSE \E userID \in ids :
                LET rows == {u \in users : UintOfNat(u.ID) = userID}
                    found == Lookup(rows, fail = 1)
                    q == [r EXCEPT !.userID = {userID}]
                IN  resp' = IF found # "ok" THEN Fail(q, 404, "User not found", <<found>>)
                            ELSE [q EXCEPT !.db = <<found>>, !.data = First(rows).FirstName]
        /\ UNCHANGED <<users, nextID, books, cart, cartNextID, reviews, now, secret, issued>>

----------------------------------------------------------------------------
(* Books *)

\* The handler draws the book's id with rand.Intn; the insert fails on an id
\* that is taken.
CreateBookHandler(body, bookID, fail) ==
    LET r == NewResp("CreateBook", <<>>, NoToken)
        newBook == [ID |-> bookID, Title |-> body.title, Price |-> body.price]
        taken == \E b \in books : b.ID = bookID
        creates == body.json /\ fail # 1 /\ ~taken
    IN  /\ resp' =
            IF ~body.json THEN Fail(r, 400, "Invalid input data", <<>>)
            ELSE IF ~creates THEN Fail(r, 500, "Failed to create book", <<"failure">>)
            ELSE [r EXCEPT !.db = <<"ok">>, !.wrote = TRUE, !.data = newBook]
        /\ books' = IF creates THEN books \cup {newBook} ELSE books
        /\ UNCHANGED <<users, nextID, cart, cartNextID, reviews, now, secret, issued>>

UpdateBookHandler(id, body, fail) ==
    LET r == NewResp("UpdateBook", <<>>, NoToken)
        rows == {b \in books : id.num /\ b.ID = id.val}
        found == Lookup(rows, fail = 1)
        book == First(rows)
        updated == [book EXCEPT !.Title = body.title, !.Price = body.price]
        writes == body.json /\ found = "ok" /\ fail # 2
    IN  /\ resp' =
            IF ~body.json THEN Fail(r, 400, "Invalid input data", <<>>)
            ELSE IF found # "ok" THEN Fail(r, 404, "Book not found", <<found>>)
            ELSE IF fail = 2 THEN Fail(r, 500, "Failed to update book", <<found, "failure">>)
            ELSE [r EXCEPT !.db = <<found, "ok">>, !.wrote = TRUE, !.data = updated]
        /\ books' = IF writes THEN (books \ {book}) \cup {updated} ELSE books
        /\ UNCHANGED <<users, nextID, cart, cartNextID, reviews, now, secret, issued>>

DeleteBookHandler(id, fail) ==
    LET r == NewResp("DeleteBook", <<>>, NoToken)
        rows == {b \in books : id.num /\ b.ID = id.val}
        found == Lookup(rows, fail = 1)
        writes == found = "ok" /\ fail # 2
    IN  /\ resp' =
            IF found # "ok" THEN Fail(r, 404, "Book not found", <<found>>)
            ELSE IF fail = 2 THEN Fail(r, 500, "Failed to delete book", <<found, "failure">>)
            ELSE [r EXCEPT !.db = <<found, "ok">>, !.wrote = TRUE,
                           !.msg = "Book deleted successfully"]
        /\ books' = IF writes THEN books \ rows ELSE books
        /\ UNCHANGED <<users, nextID, cart, cartNextID, reviews, now, secret, issued>>

----------------------------------------------------------------------------
(* The cart of the user the token names *)

AddToCartHandler(local, body, fail) ==
    LET r == NewResp("AddToCart", body, local)
        ids == UserIDFromLocals(local)
    IN  IF ids = {}
        THEN /\ resp' = Panic(r)
             /\ UNCHANGED <<users, nextID, books, cart, cartNextID, reviews, now, secret, issued>>
        ELSE \E userID \in ids :
            LET q == [r EXCEPT !.userID = {userID}]
                valid == body.book_id # 0 /\ body.quantity # 0
                items == {c \in cart : c.UserID = userID /\ c.BookID = UintOfNat(body.book_id)}
                found == Lookup(items, fail = 1)
                bookRows == {b \in books : b.ID = body.book_id}
                bookFound == Lookup(bookRows, fail = 2)
                book == First(bookRows)
                existingCartItem == First(items)
                quantity == IF found = "ok" THEN existingCartItem.Quantity + body.quantity
                            ELSE body.quantity
                saved == IF found = "ok"
                         THEN [existingCartItem EXCEPT !.Quantity = quantity,
                                                       !.Subtotal = quantity * book.Price]
                         ELSE [ID |-> cartNextID, UserID |-> userID,
                               BookID |-> UintOfNat(body.book_id), Quantity |-> quantity,
                               Subtotal |-> quantity * book.Price]
                writes == body.json /\ valid /\ bookFound = "ok" /\ fail # 3
            IN  /\ writes => quantity <= MaxQuantity
                /\ writes /\ found # "ok" => cartNextID <= MaxCartItems
                /\ resp' =
                    IF ~body.json THEN Fail(q, 400, "Invalid input data", <<>>)
                    ELSE IF ~valid THEN Fail(q, 400, "Invalid input data", <<>>)
                    ELSE IF bookFound # "ok"
                        THEN Fail(q, 500, "Failed to fetch book details", <<found, bookFound>>)
                    ELSE IF fail = 3
                        THEN Fail(q, 500, IF found = "ok" THEN "Failed to update cart"
                                          ELSE "Failed to add to cart",
                                  <<found, bookFound, "failure">>)
                    ELSE [q EXCEPT !.db = <<found, bookFound, "ok">>, !.wrote = TRUE,
                                   !.data = saved]
                /\ cart' = IF ~writes THEN cart
                           ELSE IF found = "ok" THEN (cart \ {existingCartItem}) \cup {saved}
                           ELSE cart \cup {saved}
                /\ cartNextID' = IF writes /\ found # "ok" THEN cartNextID + 1 ELSE cartNextID
                /\ UNCHANGED <<users, nextID, books, reviews, now, secret, issued>>

\* The rows a cart listing answers with: all of them, or "Cart is empty".
CartListing(r, items, fail) ==
    IF fail = 1 THEN Fail(r, 500, "Failed to fetch cart items", <<"failure">>)
    ELSE IF items = {} THEN [r EXCEPT !.msg = "Cart is empty", !.db = <<"ok">>, !.data = {}]
    ELSE [r EXCEPT !.db = <<"ok">>, !.data = items]

GetCartHandler(local, fail) ==
    LET r == NewResp("GetCart", <<>>, local)
        ids == UserIDFromLocals(local)
    IN  /\ IF ids = {} THEN resp' = Panic(r)
           ELSE \E userID \in ids :
                resp' = CartListing([r EXCEPT !.userID = {userID}],
                                    {c \in cart : c.UserID = userID}, fail)
        /\ UNCHANGED <<users, nextID, books, cart, cartNextID, reviews, now, secret, issued>>

\* Find the user's row for the book and delete it.
RemoveItem(r, items, fail) ==
    LET found == Lookup(items, fail = 1)
        cartItem == First(items)
        writes == found = "ok" /\ fail # 2
    IN  /\ resp' =
            IF found # "ok" THEN Fail(r, 404, "Cart item not found", <<found>>)
            ELSE IF fail = 2
                THEN Fail(r, 500, "Failed to remove item from cart", <<found, "failure">>)
            ELSE [r EXCEPT !.db = <<found, "ok">>, !.wrote = TRUE,
                           !.msg = "Item removed from cart"]
        /\ cart' = IF writes THEN cart \ {cartItem} ELSE cart
        /\ UNCHANGED <<users, nextID, books, cartNextID, reviews, now, secret, issued>>

\* RemoveFromCartHandler looking the row up by book alone.
RemoveFromCartHandlerAnyUser(local, bookID, fail) ==
    LET r == NewResp("RemoveFromCart", <<>>, local)
        ids == UserIDFromLocals(local)
    IN  IF ids = {}
        THEN /\ resp' = Panic(r)
             /\ UNCHANGED <<users, nextID, books, cart, cartNextID, reviews, now, secret, issued>>
        ELSE \E userID \in ids :
            RemoveItem([r EXCEPT !.userID = {userID}],
                       {c \in cart : bookID.num /\ c.BookID = UintOfNat(bookID.val)},
                       fail)

RemoveFromCartHandler(local, bookID, fail) ==
    LET r == NewResp("RemoveFromCart", <<>>, local)
        ids == UserIDFromLocals(local)
    IN  IF ids = {}
        THEN /\ resp' = Panic(r)
             /\ UNCHANGED <<users, nextID, books, cart, cartNextID, reviews, now, secret, issued>>
        ELSE \E userID \in ids :
            RemoveItem([r EXCEPT !.userID = {userID}],
                       {c \in cart : /\ c.UserID = userID
                                     /\ bookID.num /\ c.BookID = UintOfNat(bookID.val)},
                       fail)

UpdateCartItemQuantityHandler(local, bookID, body, fail) ==
    LET r == NewResp("UpdateCartItemQuantity", <<>>, local)
        ids == UserIDFromLocals(local)
    IN  IF ids = {}
        THEN /\ resp' = Panic(r)
             /\ UNCHANGED <<users, nextID, books, cart, cartNextID, reviews, now, secret, issued>>
        ELSE \E userID \in ids :
            LET q == [r EXCEPT !.userID = {userID}]
                items == {c \in cart : /\ c.UserID = userID
                                       /\ bookID.num /\ c.BookID = UintOfNat(bookID.val)}
                found == Lookup(items, fail = 1)
                cartItem == First(items)
                saved == [cartItem EXCEPT !.Quantity = body.quantity]
                writes == body.json /\ body.quantity # 0 /\ found = "ok" /\ fail # 2
            IN  /\ resp' =
                    IF ~body.json \/ body.quantity = 0
                        THEN Fail(q, 400, "Invalid input data", <<>>)
                    ELSE IF found # "ok" THEN Fail(q, 404, "Cart item not found", <<found>>)
                    ELSE IF fail = 2
                        THEN Fail(q, 500, "Failed to update cart item quantity",
                                  <<found, "failure">>)
                    ELSE [q EXCEPT !.db = <<found, "ok">>, !.wrote = TRUE, !.data = saved]
                /\ cart' = IF writes THEN (cart \ {cartItem}) \cup {saved} ELSE cart
                /\ UNCHANGED <<users, nextID, books, cartNextID, reviews, now, secret, issued>>

----------------------------------------------------------------------------
(* The routes named for the administrator *)

GetAllCartItemsHandler(local, fail) ==
    /\ resp' = CartListing(NewResp("GetAllCartItems", <<>>, local), cart, fail)
    /\ UNCHANGED <<users, nextID, books, cart, cartNextID, reviews, now, secret, issued>>

GetUserCartHandler(local, userID, fail) ==
    /\ resp' = CartListing(NewResp("GetUserCart", <<>>, local),
                           {c \in cart : userID.num /\ c.UserID = UintOfNat(userID.val)},
                           fail)
    /\ UNCHANGED <<users, nextID, books, cart, cartNextID, reviews, now, secret, issued>>

DeleteCartItemHandler(local, userID, bookID, fail) ==
    RemoveItem(NewResp("DeleteCartItem", <<>>, local),
               {c \in cart : /\ userID.num /\ c.UserID = UintOfNat(userID.val)
                             /\ bookID.num /\ c.BookID = UintOfNat(bookID.val)},
               fail)

----------------------------------------------------------------------------
(* Reviews *)

AddReviewHandler(bookID, local, body, fail) ==
    LET r == NewResp("AddReview", <<>>, local)
        ids == UserIDFromLocals(local)
    IN  IF ~bookID.num
        THEN /\ resp' = Fail(r, 400, "Invalid ID format", <<>>)
             /\ UNCHANGED <<users, nextID, books, cart, cartNextID, reviews, now, secret, issued>>
        ELSE IF ids = {}
        THEN /\ resp' = Panic(r)
             /\ UNCHANGED <<users, nextID, books, cart, cartNextID, reviews, now, secret, issued>>
        ELSE \E userID \in ids :
            LET q == [r EXCEPT !.userID = {userID}]
                bookIDUint == UintOfNat(bookID.val)
                earlier == Lookup({v \in reviews : v.UserID = userID /\ v.BookID = bookIDUint},
                                  fail = 1)
                bookFound == Lookup({b \in books : UintOfNat(b.ID) = bookIDUint}, fail = 2)
                userFound == Lookup({u \in users : UintOfNat(u.ID) = userID}, fail = 3)
                review == [ID |-> Cardinality(reviews) + 1, UserID |-> userID,
                           BookID |-> bookIDUint]
                writes == /\ earlier # "ok" /\ bookFound = "ok" /\ userFound = "ok"
                          /\ body.json /\ fail # 4
            IN  /\ resp' =
                    IF earlier = "ok"
                        THEN Fail(q, 400, "You have already reviewed this book", <<earlier>>)
                    ELSE IF bookFound # "ok"
                        THEN Fail(q, 404, "Book not found", <<earlier, bookFound>>)
                    ELSE IF userFound # "ok"
                        THEN Fail(q, 404, "User not found", <<earlier, bookFound, userFound>>)
                    ELSE IF ~body.json
                        THEN Fail(q, 400, "Invalid input data", <<earlier, bookFound, userFound>>)
                    ELSE IF fail = 4
                        THEN Fail(q, 500, "Failed to add review",
                                  <<earlier, bookFound, userFound, "failure">>)
                    ELSE IF fail = 5
                        THEN [Fail(q, 500, "Failed to fetch review",
                                   <<earlier, bookFound, userFound, "ok", "failure">>)
                              EXCEPT !.wrote = TRUE]
                    ELSE [q EXCEPT !.db = <<earlier, bookFound, userFound, "ok", "ok">>,
                                   !.wrote = TRUE, !.data = review]
                /\ reviews' = IF writes THEN reviews \cup {review} ELSE reviews
                /\ UNCHANGED <<users, nextID, books, cart, cartNextID, now, secret, issued>>

----------------------------------------------------------------------------
(* Time *)

\* The clock moves on by d seconds; the model stops it after MaxTicks moves.
Tick(d) ==
    /\ (now % TokenTTL) + (now \div TokenTTL) < MaxTicks
    /\ now' = now + d
    /\ UNCHANGED <<users, nextID, books, cart, cartNextID, reviews, secret, issued, resp>>

----------------------------------------------------------------------------
(* Requests *)

Passwords == {"pw1", "pass"}
Secrets == {"", "k1"}
Prices == {5, 7}

\* Login bodies: unparseable, or an email (valid or not) and a password (or none).
LoginBodies ==
    {[json |-> FALSE, email |-> "", password |-> ""]} \cup
    {[json |-> TRUE, email |-> e, password |-> p] :
        e \in ValidEmails \cup {"nobody"}, p \in Passwords \cup {""}}

RegisterBodies ==
    {[json |-> FALSE, firstname |-> "", lastname |-> "", email |-> "",
      password |-> "", role |-> ""]} \cup
    {[json |-> TRUE, firstname |-> "Ann", lastname |-> "Lee", email |-> e,
      password |-> p, role |-> r] :
        e \in ValidEmails \cup {"nobody"}, p \in Passwords, r \in Roles}

CustomerRegistrations == {b \in RegisterBodies : b.role # "admin"}

ProfileBodies ==
    {[json |-> FALSE, firstname |-> "", lastname |-> "", email |-> "", password |-> ""]} \cup
    {[json |-> TRUE, firstname |-> f, lastname |-> "", email |-> e, password |-> p] :
        f \in {"", "Bob"}, e \in ValidEmails \cup {""}, p \in Passwords \cup {""}}

CredentialUpdates == {b \in ProfileBodies : b.firstname = ""}

\* Updates of any subset of the four fields, each with a value that parses.
FieldUpdates ==
    {[json |-> FALSE, firstname |-> "", lastname |-> "", email |-> "", password |-> ""]} \cup
    {[json |-> TRUE, firstname |-> f, lastname |-> l, email |-> e, password |-> p] :
        f \in {"", "Bob"}, l \in {"", "Kim"}, e \in {"", "b@x.io"},
        p \in Base64Strings \cup {""}}

BookBodies ==
    {[json |-> FALSE, title |-> "", price |-> 0]} \cup
    {[json |-> TRUE, title |-> "t", price |-> p] : p \in Prices}

CartBodies ==
    {[json |-> FALSE, book_id |-> 0, quantity |-> 0]} \cup
    {[json |-> TRUE, book_id |-> b, quantity |-> q] : b \in 0..MaxBooks, q \in 0..MaxQuantity}

QuantityBodies ==
    {[json |-> FALSE, quantity |-> 0]} \cup
    {[json |-> TRUE, quantity |-> q] : q \in 0..MaxQuantity}

ReviewBodies == {[json |-> FALSE], [json |-> TRUE]}

UserParams == {BadParam} \cup {NumParam(n) : n \in 1..MaxUsers}
BookParams == {BadParam} \cup {NumParam(n) : n \in 1..MaxBooks}

\* What c.Locals("user") can hold when a handler runs: nothing, the parsed
\* token of a request the verifier let through, or a token whose user_id claim
\* is absent or a string.
OddLocals ==
    {[kind |-> "jwt", Claims |-> [user_id |-> [type |-> t], exp |-> 0]] :
        t \in {"nil", "string"}}

Locals == {NoToken} \cup OddLocals \cup {Authenticate(i.tok).user : i \in issued}

\* User ids handed to CreateToken directly: the small ones and those around
\* the powers of two from 2^50 up.
TokenInputs ==
    {UintOfNat(n) : n \in 0..MaxSmallID} \cup
    {Pow2Plus(k, d) : k \in 50..(UintWidth - 1), d \in 0..3} \cup {MaxUint}

\* One call of CreateToken; its token is the one under examination.
IssueToken(userID) ==
    /\ resp' = [NewResp("CreateToken", userID, NoToken) EXCEPT
                    !.token = CreateToken(userID).token]
    /\ issued' = {[tok |-> resp'.token, at |-> now]}
    /\ UNCHANGED <<users, nextID, books, cart, cartNextID, reviews, now, secret>>

----------------------------------------------------------------------------
(* Specifications *)

Init ==
    /\ users = {}
    /\ nextID = 1
    /\ books = {}
    /\ cart = {}
    /\ cartNextID = 1
    /\ reviews = {}
    /\ now = 0
    /\ secret \in Secrets
    /\ issued = {}
    /\ resp = NewResp("none", <<>>, NoToken)

\* Registration, profile updates and login, with failing database calls.
Next ==
    \/ \E body \in LoginBodies, fail \in 0..1 : LoginHandler(body, fail)
    \/ \E body \in CustomerRegistrations, fail \in 0..2 : RegisterHandler(body, fail, "s1")
    \/ \E id \in UserParams, body \in CredentialUpdates : UpdateProfile(id, body, 0, "s2")

Spec == Init /\ [][Next]_vars

\* The same start with JWT_SECRET set.
InitSigned == Init /\ secret # ""

\* Profile updates of every kind, failing or not.
NextProfiles ==
    \/ \E body \in LoginBodies : LoginHandler(body, 0)
    \/ \E body \in CustomerRegistrations : RegisterHandler(body, 0, "s1")
    \/ \E id \in UserParams, body \in ProfileBodies, fail \in 0..2 :
            UpdateProfile(id, body, fail, "s2")

SpecProfiles == InitSigned /\ [][NextProfiles]_vars

\* Bodies that parse and validate, with the first password.
PlainLogins == {b \in LoginBodies : b.json /\ ValidEmail(b.email) /\ b.password = "pw1"}
PlainRegistrations ==
    {b \in RegisterBodies : b.json /\ ValidEmail(b.email) /\ b.password = "pw1"}
PlainCustomerRegistrations == {b \in PlainRegistrations : b.role = "customer"}
PlainBooks == {b \in BookBodies : b.json /\ b.price = 5}
PlainCartBodies == {b \in CartBodies : b.json /\ b.book_id # 0 /\ b.quantity = 1}
PlainQuantityBodies == {b \in QuantityBodies : b.json /\ b.quantity = 1}

\* The routes named for the administrator, called by customers and administrators.
NextAdmin ==
    \/ \E body \in PlainRegistrations : RegisterHandler(body, 0, "s1")
    \/ \E body \in PlainBooks, bookID \in 1..MaxBooks : CreateBookHandler(body, bookID, 0)
    \/ \E local \in Locals, body \in PlainCartBodies : AddToCartHandler(local, body, 0)
    \/ \E local \in Locals : GetAllCartItemsHandler(local, 0)
    \/ \E local \in Locals, userID \in UserParams : GetUserCartHandler(local, userID, 0)
    \/ \E local \in Locals, userID \in UserParams, bookID \in BookParams :
            DeleteCartItemHandler(local, userID, bookID, 0)
    \/ \E local \in Locals, id \in UserParams : DeleteUserHandler(local, id, 0)

SpecAdmin == InitSigned /\ [][NextAdmin]_vars

\* The handlers' database calls, each failing or not.
NextErrors ==
    \/ \E body \in PlainLogins, fail \in 0..1 : LoginHandler(body, fail)
    \/ \E body \in PlainCustomerRegistrations, fail \in 0..2, salt \in Salts :
            RegisterHandler(body, fail, salt)
    \/ \E body \in PlainBooks, bookID \in 1..MaxBooks, fail \in 0..1 :
            CreateBookHandler(body, bookID, fail)
    \/ \E id \in BookParams, fail \in 0..2 : DeleteBookHandler(id, fail)
    \/ \E local \in Locals \ (OddLocals \cup {NoToken}), body \in PlainCartBodies, fail \in 0..3 :
            AddToCartHandler(local, body, fail)

SpecErrors == InitSigned /\ [][NextErrors]_vars

\* The handlers that read the caller's identity from the request context.
NextProtected ==
    \/ \E body \in PlainCustomerRegistrations : RegisterHandler(body, 0, "s1")
    \/ \E body \in PlainBooks, bookID \in 1..MaxBooks : CreateBookHandler(body, bookID, 0)
    \/ \E local \in Locals : GetUserNameHandler(local, 0)
    \/ \E local \in Locals, body \in PlainCartBodies : AddToCartHandler(local, body, 0)
    \/ \E local \in Locals : GetCartHandler(local, 0)
    \/ \E local \in Locals, bookID \in BookParams : RemoveFromCartHandler(local, bookID, 0)
    \/ \E local \in Locals, bookID \in BookParams, body \in PlainQuantityBodies :
            UpdateCartItemQuantityHandler(local, bookID, body, 0)
    \/ \E bookID \in BookParams, local \in Locals, body \in ReviewBodies :
            AddReviewHandler(bookID, local, body, 0)

SpecProtected == InitSigned /\ [][NextProtected]_vars

\* Sessions: tokens over time, and the handlers that identify the user by one.
NextSession ==
    \/ \E body \in PlainCustomerRegistrations : RegisterHandler(body, 0, "s1")
    \/ \E id \in UserParams : DeactivateAccountHandler(id, 0)
    \/ \E id \in UserParams : ActivateAccountHandler(id, 0)
    \/ LogoutHandler
    \/ \E local \in Locals \ OddLocals : GetUserNameHandler(local, 0)
    \/ \E body \in PlainBooks, bookID \in 1..MaxBooks : CreateBookHandler(body, bookID, 0)
    \/ \E local \in Locals \ OddLocals, body \in PlainCartBodies :
            AddToCartHandler(local, body, 0)
    \/ \E local \in Locals \ OddLocals : GetCartHandler(local, 0)
    \/ Tick(TokenTTL)

SpecSession == InitSigned /\ [][NextSession]_vars

\* Token issue and expiry: logins and registrations as the clock moves.
NextExpiry ==
    \/ \E body \in PlainLogins : LoginHandler(body, 0)
    \/ \E body \in PlainCustomerRegistrations : RegisterHandler(body, 0, "s1")
    \/ \E local \in Locals \ OddLocals : GetUserNameHandler(local, 0)
    \/ \E d \in {1, TokenTTL} : Tick(d)

SpecExpiry == Init /\ [][NextExpiry]_vars

\* Profile updates of every field on users of either state.
NextUpdate ==
    \/ \E body \in PlainCustomerRegistrations : RegisterHandler(body, 0, "s1")
    \/ \E id \in UserParams : ActivateAccountHandler(id, 0)
    \/ \E id \in UserParams, body \in FieldUpdates : UpdateProfile(id, body, 0, "s2")

SpecUpdate == InitSigned /\ [][NextUpdate]_vars

\* Carts while quantities and book prices change.
NextCart ==
    \/ \E body \in PlainCustomerRegistrations : RegisterHandler(body, 0, "s1")
    \/ \E body \in PlainBooks, bookID \in 1..MaxBooks : CreateBookHandler(body, bookID, 0)
    \/ \E id \in BookParams, body \in BookBodies : UpdateBookHandler(id, body, 0)
    \/ \E local \in Locals \ OddLocals, body \in PlainCartBodies :
            AddToCartHandler(local, body, 0)
    \/ \E local \in Locals \ OddLocals, bookID \in BookParams, body \in QuantityBodies :
            UpdateCartItemQuantityHandler(local, bookID, body, 0)

SpecCart == InitSigned /\ [][NextCart]_vars

\* CreateToken on any user id, and the identity a handler reads back.
NextToken ==
    \/ \E userID \in TokenInputs : IssueToken(userID)
    \/ \E local \in Locals : GetUserNameHandler(local, 0)

SpecToken == Init /\ [][NextToken]_vars

----------------------------------------------------------------------------
(* Properties of login and token issue (specification Spec) *)

\* The password a stored hash was made for: the one most recently supplied.
SetPassword(u) == u.Password.digest[4][2]

WellFormed(body) == body.json /\ ValidEmail(body.email) /\ body.password # ""

\* C1: LoginHandler returns a token only when a user record with the submitted
\* email exists and the submitted password verifies against that record's
\* stored hash, and the token is issued for that record's ID; an unparseable
\* body, an invalid email, an unknown email or a wrong password gets no token.
C1_LoginTokenOnlyForVerifiedUser ==
    resp.op = "Login" =>
        /\ resp.token # NoToken =>
            /\ WellFormed(resp.req)
            /\ \E u \in users :
                /\ u.Email = resp.req.email
                /\ CompareHashAndPassword(u.Password, Bytes(resp.req.password))
                /\ resp.token.user_id = [type |-> "number", val |-> UintOfNat(u.ID)]
        /\ ~WellFormed(resp.req) => resp.token = NoToken
        /\ (\A u \in users : u.Email # resp.req.email) => resp.token = NoToken
        /\ (\A u \in users : u.Email = resp.req.email =>
                ~CompareHashAndPassword(u.Password, Bytes(resp.req.password)))
            => resp.token = NoToken

\* C1's case: a login answered with a token while two accounts exist, one of
\* them with another password.
C1_Witness ==
    /\ resp.op = "Login"
    /\ resp.token # NoToken
    /\ \E u, v \in users :
        /\ u.Email = resp.req.email
        /\ v.Email # resp.req.email
        /\ SetPassword(v) # resp.req.password

\* C6: a failed login does not tell its sub-case: a well-formed request with an
\* email that has no account and one with an existing email and a wrong
\* password get the same status code and the same body.
C6_FailedLoginUniform ==
    \A b1, b2 \in LoginBodies :
        ( /\ WellFormed(b1) /\ WellFormed(b2)
          /\ \A u \in users : u.Email # b1.email
          /\ \E u \in users : u.Email = b2.email
          /\ \A u \in users : u.Email = b2.email =>
                ~CompareHashAndPassword(u.Password, Bytes(b2.password)) )
        => /\ LoginResponse(b1, 0).status = LoginResponse(b2, 0).status
           /\ LoginResponse(b1, 0).msg = LoginResponse(b2, 0).msg

\* C7: CreateToken never issues a token when the signing secret is absent or
\* empty: LoginHandler and RegisterHandler then return no token, and a token is
\* only ever signed with a non-empty secret.
C7_NoTokenWithoutSecret ==
    /\ resp.token # NoToken => resp.token.key # ""
    /\ (resp.op \in {"Login", "Register"} /\ secret = "") => resp.token = NoToken
    /\ \A i \in issued : i.tok.key # ""

----------------------------------------------------------------------------
(* Passwords across registration and profile updates (SpecProfiles) *)

\* C8: after any sequence of RegisterHandler and UpdateProfile calls, a login
\* with a user's email succeeds exactly when the submitted password is the one
\* most recently set for that user.
C8_LoginIffLatestPassword ==
    \A u \in users, p \in Passwords :
        (LoginResponse([json |-> TRUE, email |-> u.Email, password |-> p], 0).token # NoToken)
            <=> (p = SetPassword(u))

----------------------------------------------------------------------------
(* Sessions (SpecSession) *)

\* The identity a handler reads from a token the verifier lets through.
IdentityOf(tok) == UserIDFromLocals(Authenticate(tok).user)

----------------------------------------------------------------------------
(* The identity in a token (SpecToken) *)

\* C3: for every user ID u, the identity a handler derives from the token
\* CreateToken(u) (user_id read as float64 and converted to uint) is u.
C3_IdentityRoundTrip ==
    resp.op = "GetUserName" =>
        \A i \in issued :
            resp.local = ParseToken(i.tok) => resp.userID = {i.tok.user_id.val}

----------------------------------------------------------------------------
(* Expiry (SpecExpiry) *)

\* C4: every token issued at time t expires at exactly t + 24 hours, whatever
\* the user and whatever came before; it is valid at every time up to t + 24h
\* and rejected as Expired from t + 24h + 1s on.
C4_ExpiryAfterTTL ==
    \A i \in issued :
        /\ i.tok.exp = i.at + TokenTTL
        /\ now <= i.at + TokenTTL => Authenticate(i.tok).err = "none"
        /\ now >= i.at + TokenTTL + 1 => Authenticate(i.tok).err = "Expired"

\* C4's case: a token issued after the start is verified one second past its
\* 24 hours.
C4_Witness ==
    \E i \in issued :
        /\ i.at > 0
        /\ now = i.at + TokenTTL + 1
        /\ Authenticate(i.tok).err = "Expired"

----------------------------------------------------------------------------
(* The administrator's routes (SpecAdmin) *)

AdminOps == {"GetAllCartItems", "DeleteUser", "DeleteCartItem"}

\* The caller's role as the store has it; "unknown" when the lookup finds no
\* single user for the request's token.
CallerRole(local) ==
    LET rows == {u \in users : UserIDFromLocals(local) = {UintOfNat(u.ID)}}
    IN  IF rows = {} THEN "unknown" ELSE First(rows).Role

\* C5: authorization fails closed: a call of GetAllCartItemsHandler,
\* DeleteUserHandler or DeleteCartItemHandler by a caller who is a customer, or
\* whose role cannot be looked up, is answered 403 Forbidden and changes
\* neither the users nor the cart items.
C5_AdminFailsClosed ==
    [][(resp'.op \in AdminOps /\ CallerRole(resp'.local) # "admin")
            => (resp'.status = 403 /\ users' = users /\ cart' = cart)]_vars

----------------------------------------------------------------------------
(* Persistence outcomes (SpecErrors) *)

\* C9: a handler answers a store failure with a server error and writes
\* nothing after it, and answers a missing row, when that ends the request,
\* with not-found.
C9_OutcomeToResponseClass ==
    /\ (\E k \in 1..Len(resp.db) : resp.db[k] = "failure")
            => (resp.status = 500 /\ ~resp.wrote)
    /\ (resp.status >= 400 /\ resp.db # <<>> /\ resp.db[Len(resp.db)] = "notfound")
            => resp.status = 404

----------------------------------------------------------------------------
(* Handlers without an identity (SpecProtected) *)

ProtectedOps ==
    {"GetUserName", "AddToCart", "GetCart", "RemoveFromCart", "UpdateCartItemQuantity",
     "AddReview"}

\* C10: a protected handler called with no token in the request context, or
\* with a token whose user_id claim is missing or not a number, answers with
\* an authentication error (a request already turned down for its URL
\* parameter apart); it does not crash and does not touch the store.
C10_NoIdentityNoCrash ==
    (resp.op \in ProtectedOps /\ UserIDFromLocals(resp.local) = {}) =>
        /\ resp.msg # "panic"
        /\ resp.db = <<>>
        /\ ~resp.wrote
        /\ resp.status = 401 \/ resp.msg = "Invalid ID format"

----------------------------------------------------------------------------
(* Stored passwords (Spec) *)

\* The byte strings a request can carry as a password.
SubmittedBytes ==
    {Bytes(p) : p \in Passwords} \cup {DecodeString(p).bytes : p \in Passwords}

HashedAtFixedCost(u) ==
    /\ u.Password.cost = BcryptCost
    /\ \E b \in SubmittedBytes, salt \in Salts :
            u.Password = GenerateFromPassword(b, BcryptCost, salt)
    /\ u.Password.digest \notin SubmittedBytes

\* C11: in every reachable state every user's stored password is an output of
\* the hasher at the one cost factor 10, never the submitted plaintext, after
\* any RegisterHandler and UpdateProfile calls; and an UpdateProfile that
\* supplies no password leaves every stored hash as it was.
C11_PasswordsHashed ==
    /\ [](\A u \in users : HashedAtFixedCost(u))
    /\ [][(resp'.op = "UpdateProfile" /\ resp'.req[2].password = "")
            => \A u \in users : \E v \in users' :
                    v.ID = u.ID /\ v.Password = u.Password]_vars

\* C11's case: an update without a password has been written to a user whose
\* hash an earlier update had set.
C11_Witness ==
    /\ resp.op = "UpdateProfile"
    /\ resp.wrote
    /\ resp.req[2].password = ""
    /\ resp.req[2].email # ""
    /\ \E u \in users :
        /\ u.ID = resp.req[1].val
        /\ u.Password.salt = "s2"
        /\ u.Email = resp.req[2].email

----------------------------------------------------------------------------
(* Emails (SpecProfiles) *)

\* C12: no two user records share an email, after any RegisterHandler and
\* UpdateProfile calls; and a registration answered with a conflict has
\* created no record.
C12_EmailUnique ==
    /\ \A u, v \in users : u.Email = v.Email => u.ID = v.ID
    /\ (resp.op = "Register" /\ resp.status = 409) => ~resp.wrote

----------------------------------------------------------------------------
(* The cart of the caller only (SpecProtected) *)

CartOps == {"GetCart", "AddToCart", "RemoveFromCart", "UpdateCartItemQuantity"}

\* C13: GetCartHandler, AddToCartHandler, RemoveFromCartHandler and
\* UpdateCartItemQuantityHandler called with identity u leave every other
\* user's cart items as they were and answer with items of u only; a call
\* that reads no identity changes no cart item.
C13_OwnCartOnly ==
    [][resp'.op \in CartOps =>
        /\ resp'.userID = {} => cart' = cart
        /\ \A u \in resp'.userID :
            /\ {c \in cart' : c.UserID # u} = {c \in cart : c.UserID # u}
            /\ (resp'.op = "GetCart" /\ resp'.status = 200) =>
                    \A c \in resp'.data : c.UserID = u
            /\ (resp'.op \in {"AddToCart", "UpdateCartItemQuantity"} /\ resp'.status = 200) =>
                    resp'.data.UserID = u]_vars

\* C13's case: a user has removed or changed an item of a book that another
\* user has in the cart too.
C13_Witness ==
    /\ resp.op \in {"RemoveFromCart", "UpdateCartItemQuantity"}
    /\ resp.wrote
    /\ \E c \in cart : {c.UserID} # resp.userID

----------------------------------------------------------------------------
(* What a profile update leaves alone (SpecUpdate) *)

\* C14: UpdateProfile changes, on the user the URL id names and on no other,
\* only those of first name, last name, email and password that the request
\* supplies non-empty: an empty field keeps its value, ID, role and active
\* flag are kept, no record appears or disappears, and nothing changes when
\* the id is invalid or names no user.
C14_UpdateOnlySupplied ==
    [][resp'.op = "UpdateProfile" =>
        LET id == resp'.req[1]
            body == resp'.req[2]
            named == {u \in users : id.num /\ u.ID = id.val}
        IN  /\ \A v \in users \ named : v \in users'
            /\ {w.ID : w \in users'} = {u.ID : u \in users}
            /\ Cardinality(users') = Cardinality(users)
            /\ named = {} => users' = users
            /\ \A u \in named : \E w \in users' :
                /\ w.ID = u.ID /\ w.Role = u.Role /\ w.Active = u.Active
                /\ body.firstname = "" => w.FirstName = u.FirstName
                /\ body.lastname = "" => w.LastName = u.LastName
                /\ body.email = "" => w.Email = u.Email
                /\ body.password = "" => w.Password = u.Password]_vars

\* C14's case: an update that supplied a first name only has been written to
\* an active user while another user exists.
C14_Witness ==
    /\ resp.op = "UpdateProfile"
    /\ resp.wrote
    /\ resp.req[2].firstname # ""
    /\ resp.req[2].lastname = "" /\ resp.req[2].email = "" /\ resp.req[2].password = ""
    /\ \E u, v \in users :
        /\ u.ID = resp.req[1].val /\ v.ID # u.ID
        /\ u.FirstName = resp.req[2].firstname
        /\ u.LastName = "Lee"
        /\ u.Active

----------------------------------------------------------------------------
(* Subtotals (SpecCart) *)

\* C15: in every reachable state every cart item's Subtotal is its Quantity
\* times the current price of its book, after any AddToCartHandler,
\* UpdateCartItemQuantityHandler and UpdateBookHandler calls.
C15_SubtotalIsQuantityTimesPrice ==
    \A c \in cart : \A b \in books :
        UintOfNat(b.ID) = c.BookID => c.Subtotal = c.Quantity * b.Price

====
